---- MODULE Spec2Model ----
(***************************************************************************)
(* Model of starlark/src/environment/mod.rs: the Environment handle        *)
(* (Rc<RefCell<EnvironmentContent>>), its scope chain, freezing, symbol    *)
(* import, GC roots and the set-literal constructor.                       *)
(*                                                                         *)
(* An Environment handle is an index into the sequence `env`, which plays  *)
(* the role of the Rc allocations: env[e] is the EnvironmentContent behind *)
(* handle e, and two handles are the same allocation iff they are equal.   *)
(* A Value is a shared reference to a runtime object, identified by a      *)
(* small integer; `immutable` is the set of objects that Value::freeze has *)
(* been called on.  `type_values` is one TypeValues table.                 *)
(* `imported_from` is a history variable: for each environment and name,   *)
(* the source of the last successful import_symbol that bound the name.    *)
(***************************************************************************)
EXTENDS Integers, Sequences, FiniteSets, Bags, TLC

VARIABLES env, immutable, calls, last, type_values, imported_from

vars == <<env, immutable, calls, last, type_values, imported_from>>

(***************************************************************************)
(* Bounds and input domains.                                               *)
(***************************************************************************)
\* Number of state-changing calls explored along one behaviour.
MaxCalls == 3

\* Variable names, as sequences of characters: "", "_x" and "x".
Names == {<< >>, <<"_", "x">>, <<"x">>}

\* Runtime objects that a Value can refer to.
Values == {1, 2}

\* Diagnostic names given to environments.
EnvNames == {"m"}

\* Set constructors that can be installed.
Ctors == {1, 2}

\* Objects passed to the TypeValues lookups, type names and attribute names
\* registered in the table.
Objects == {1, 2, 3}

TypeNames == {"int", "list", "dict"}

Attrs == {"a", "b"}

\* Option::None, for parent, set_constructor and an absent type value.
None == 0

Handles == DOMAIN env

(***************************************************************************)
(* Results of the fallible operations: the EnvironmentError variants, the  *)
(* ValueError raised by make_set, and the panic of a RefCell whose borrow  *)
(* rules are broken (which is not an error value).                         *)
(***************************************************************************)
Result(kind, val, name, flag, roots) ==
    [kind |-> kind, val |-> val, name |-> name, flag |-> flag, roots |-> roots]

\* Ok(()) and the Ok results that carry a Value, an Environment, a bool or
\* a Vec of GC heads.
Ok == Result("Ok", 0, << >>, FALSE, EmptyBag)

OkVal(v) == Result("Ok", v, << >>, FALSE, EmptyBag)

OkBool(b) == Result("Ok", 0, << >>, b, EmptyBag)

OkRoots(r) == Result("Ok", 0, << >>, FALSE, r)

TryingToMutateFrozenEnvironment ==
    Result("TryingToMutateFrozenEnvironment", 0, << >>, FALSE, EmptyBag)

VariableNotFound(name) == Result("VariableNotFound", 0, name, FALSE, EmptyBag)

CannotImportPrivateSymbol(symbol) ==
    Result("CannotImportPrivateSymbol", 0, symbol, FALSE, EmptyBag)

TypeNotSupported(what) == Result("TypeNotSupported", 0, what, FALSE, EmptyBag)

BorrowPanic == Result("BorrowPanic", 0, << >>, FALSE, EmptyBag)

(***************************************************************************)
(* HashMap::insert.                                                        *)
(***************************************************************************)
Insert(m, k, v) == [x \in (DOMAIN m) \cup {k} |-> IF x = k THEN v ELSE m[x]]

EmptyMap == [x \in {} |-> x]

(***************************************************************************)
(* The collaborators Value and Heap, at their interface.                   *)
(***************************************************************************)
\* Value::to_gc_strong: the GC head of a value, for values with a
\* heap-resident payload; odd objects have one, even objects are inline.
to_gc_strong(v) == IF v % 2 = 1 THEN {v} ELSE {}

\* Value::get_type: the name of the runtime type of an object; odd objects
\* are of type "int", even objects of type "list".
get_type(obj) == IF obj % 2 = 1 THEN "int" ELSE "list"

\* Heap::new: a heap is represented by the passes run on it so far.  A pass
\* is recorded with its mode, the roots it traces from, and `at`, the state
\* of the environment when the pass starts.
Heap_new == << >>

\* Heap::gc(env, reason): a full trace from the roots of env.
Heap_gc(heap, roots, at) ==
    Append(heap, [mode |-> "gc", roots |-> roots, at |-> at])

\* Heap::gc_weak(reason): a pass without tracing.
Heap_gc_weak(heap, at) ==
    Append(heap, [mode |-> "gc_weak", roots |-> EmptyBag, at |-> at])

(***************************************************************************)
(* EnvironmentContent                                                      *)
(***************************************************************************)
NewContent(name, parent) ==
    [name_ |-> name,
     frozen |-> FALSE,
     parent |-> parent,
     deps |-> EmptyMap,
     heap |-> Heap_new,
     variables |-> EmptyMap,
     set_constructor |-> None]

\* EnvironmentContent::freeze that skips the imported bindings.
EnvironmentContent_freeze_local_only(c) ==
    IF ~c.frozen
    THEN [content |-> [c EXCEPT !.frozen = TRUE],
          froze |-> {c.variables[n][1] :
                        n \in {m \in DOMAIN c.variables : ~c.variables[m][2]}},
          ret |-> TRUE]
    ELSE [content |-> c, froze |-> {}, ret |-> FALSE]

\* EnvironmentContent::freeze: the content afterwards, the values that
\* Value::freeze was called on, and the returned bool.
EnvironmentContent_freeze(c) ==
    IF ~c.frozen
    THEN [content |-> [c EXCEPT !.frozen = TRUE],
          froze |-> {c.variables[n][1] : n \in DOMAIN c.variables},
          ret |-> TRUE]
    ELSE [content |-> c, froze |-> {}, ret |-> FALSE]

\* EnvironmentContent::set without the test of `frozen`.
EnvironmentContent_set_unchecked(c, name, value, imported) ==
    [content |-> [c EXCEPT !.variables =
                     Insert(c.variables, name, <<value, imported>>)],
     res |-> Ok]

\* EnvironmentContent::set that keeps the binding of a name already bound.
EnvironmentContent_set_keep(c, name, value, imported) ==
    IF c.frozen
    THEN [content |-> c, res |-> TryingToMutateFrozenEnvironment]
    ELSE [content |-> [c EXCEPT !.variables =
                          IF name \in DOMAIN c.variables THEN @
                          ELSE Insert(@, name, <<value, imported>>)],
          res |-> Ok]

\* EnvironmentContent::set
EnvironmentContent_set(c, name, value, imported) ==
    IF c.frozen
    THEN [content |-> c, res |-> TryingToMutateFrozenEnvironment]
    ELSE [content |-> [c EXCEPT !.variables =
                          Insert(c.variables, name, <<value, imported>>)],
          res |-> Ok]

\* Environment::set that also rebinds the name in a parent that binds it.
Environment_set_with_fallback(E, e, name, value) ==
    LET r == EnvironmentContent_set(E[e], name, value, FALSE)
        E1 == [E EXCEPT ![e] = r.content]
        p == E[e].parent
    IN  IF r.res = Ok /\ p # None /\ name \in DOMAIN E[p].variables
        THEN [E |-> [E1 EXCEPT ![p].variables = Insert(@, name, <<value, FALSE>>)],
              res |-> r.res]
        ELSE [E |-> E1, res |-> r.res]

\* Environment::set: the environments afterwards and the result.
Environment_set(E, e, name, value) ==
    LET r == EnvironmentContent_set(E[e], name, value, FALSE)
    IN  [E |-> [E EXCEPT ![e] = r.content], res |-> r.res]

\* Environment::get and EnvironmentContent::get.  `mut` is the set of
\* handles whose RefCell is mutably borrowed while the lookup runs:
\* RefCell::borrow panics on them.
RECURSIVE Environment_get(_, _, _, _)
RECURSIVE EnvironmentContent_get(_, _, _, _)

\* EnvironmentContent::get that asks the parent before the local bindings.
EnvironmentContent_get_parent_first(E, mut, e, name) ==
    LET up == IF E[e].parent # None
              THEN Environment_get(E, mut, E[e].parent, name)
              ELSE VariableNotFound(name)
    IN  IF up.kind # "VariableNotFound" THEN up
        ELSE IF name \in DOMAIN E[e].variables
             THEN OkVal(E[e].variables[name][1])
             ELSE up

EnvironmentContent_get(E, mut, e, name) ==
    IF name \in DOMAIN E[e].variables
    THEN OkVal(E[e].variables[name][1])
    ELSE IF E[e].parent # None
         THEN Environment_get(E, mut, E[e].parent, name)
         ELSE VariableNotFound(name)

Environment_get(E, mut, e, name) ==
    IF e \in mut THEN BorrowPanic ELSE EnvironmentContent_get(E, mut, e, name)

\* EnvironmentContent::get_parent
EnvironmentContent_get_parent(c) == c.parent

\* Environment::roots: the GC heads of the bindings that are not imported,
\* as a bag (a Vec in the order of the HashMap's iteration).
\* Environment::roots with the flag read the other way round.
RECURSIVE RootsOver_inverted(_, _)
RootsOver_inverted(variables, names) ==
    IF names = {} THEN EmptyBag
    ELSE LET n == CHOOSE x \in names : TRUE
             v == variables[n][1]
             imported == variables[n][2]
             heads == IF imported THEN to_gc_strong(v) ELSE {}
         IN  SetToBag(heads) (+) RootsOver_inverted(variables, names \ {n})

RECURSIVE RootsOver(_, _)
RootsOver(variables, names) ==
    IF names = {} THEN EmptyBag
    ELSE LET n == CHOOSE x \in names : TRUE
             v == variables[n][1]
             imported == variables[n][2]
             heads == IF ~imported THEN to_gc_strong(v) ELSE {}
         IN  SetToBag(heads) (+) RootsOver(variables, names \ {n})

Environment_roots(E, e) == RootsOver(E[e].variables, DOMAIN E[e].variables)

\* Environment::add_env_dep: keyed by the address of the dependency's RefCell.
as_ptr(dep) == dep

\* Environment::add_env_dep keyed by the contents of the dependency: by the
\* first environment whose contents equal the dependency's.
Environment_add_env_dep_by_contents(E, e, dep) ==
    LET same == {k \in DOMAIN E : E[k] = E[dep]}
        key == CHOOSE k \in same : \A j \in same : k <= j
    IN  [E EXCEPT ![e].deps = Insert(E[e].deps, key, dep)]

Environment_add_env_dep(E, e, dep) ==
    [E EXCEPT ![e].deps = Insert(E[e].deps, as_ptr(dep), dep)]

\* The first character test without the case of the empty symbol.
IsPrivate_underscore_only(symbol) == Len(symbol) > 0 /\ Head(symbol) = "_"

\* The first character test of Environment::import_symbol.
IsPrivate(symbol) == Len(symbol) = 0 \/ Head(symbol) = "_"

\* Environment::import_symbol that binds under `symbol` instead of `new_name`.
Environment_import_symbol_as_symbol(E, e, src, symbol, new_name) ==
    IF Len(symbol) = 0 \/ Head(symbol) = "_"
    THEN [E |-> E, res |-> CannotImportPrivateSymbol(symbol)]
    ELSE LET E1 == [E EXCEPT ![e].deps = Insert(E[e].deps, src, src)]
             got == Environment_get(E1, {e}, src, symbol)
         IN  IF got.kind # "Ok"
             THEN [E |-> E1, res |-> got]
             ELSE LET r == EnvironmentContent_set(E1[e], symbol, got.val, TRUE)
                  IN  [E |-> [E1 EXCEPT ![e] = r.content], res |-> r.res]

\* Environment::import_symbol that records the dependency after the lookup
\* has succeeded.
Environment_import_symbol_dep_last(E, e, src, symbol, new_name) ==
    IF IsPrivate(symbol)
    THEN [E |-> E, res |-> CannotImportPrivateSymbol(symbol)]
    ELSE LET got == Environment_get(E, {e}, src, symbol)
             E1 == Environment_add_env_dep(E, e, src)
         IN  IF got.kind # "Ok"
             THEN [E |-> E, res |-> got]
             ELSE LET r == EnvironmentContent_set(E1[e], new_name, got.val, TRUE)
                  IN  [E |-> [E1 EXCEPT ![e] = r.content], res |-> r.res]

\* Environment::import_symbol: the environments afterwards and the result.
Environment_import_symbol(E, e, src, symbol, new_name) ==
    IF IsPrivate(symbol)
    THEN [E |-> E, res |-> CannotImportPrivateSymbol(symbol)]
    ELSE LET E1 == Environment_add_env_dep(E, e, src)
             \* self.env.borrow_mut() is taken before the argument
             \* env.get(symbol)? is evaluated, and held across it.
             got == Environment_get(E1, {e}, src, symbol)
         IN  IF got.kind # "Ok"
             THEN [E |-> E1, res |-> got]
             ELSE LET r == EnvironmentContent_set(E1[e], new_name, got.val, TRUE)
                  IN  [E |-> [E1 EXCEPT ![e] = r.content], res |-> r.res]

\* The state of environment e that a GC pass finds when it starts: the
\* frozen flag, whether every bound value has been made immutable, and
\* whether a mutable borrow of its RefCell is alive (mut).
PassStart(E, imm, mut, e) ==
    [frozen |-> E[e].frozen,
     immutable |-> \A n \in DOMAIN E[e].variables : E[e].variables[n][1] \in imm,
     borrowed |-> e \in mut]

\* Environment::freeze that runs the GC pass whatever the inner freeze returns.
Environment_freeze_always_gc(E, imm, e, gc) ==
    LET f == EnvironmentContent_freeze(E[e])
        E1 == [E EXCEPT ![e] = f.content]
        at == PassStart(E1, imm \cup f.froze, {}, e)
    IN  [E |-> [E1 EXCEPT ![e].heap =
                   IF gc THEN Heap_gc(@, Environment_roots(E1, e), at)
                         ELSE Heap_gc_weak(@, at)],
         imm |-> imm \cup f.froze,
         ret |-> f.ret]

\* Environment::freeze that runs the GC pass inside the mutable borrow,
\* before EnvironmentContent::freeze.
Environment_freeze_gc_first(E, imm, e, gc) ==
    LET at == PassStart(E, imm, {e}, e)
        E0 == IF E[e].frozen THEN E
              ELSE [E EXCEPT ![e].heap =
                       IF gc THEN Heap_gc(@, Environment_roots(E, e), at)
                             ELSE Heap_gc_weak(@, at)]
        f == EnvironmentContent_freeze(E0[e])
    IN  [E |-> [E0 EXCEPT ![e] = f.content],
         imm |-> imm \cup f.froze,
         ret |-> f.ret]

\* Environment::freeze: the environments and the immutable values afterwards.
Environment_freeze(E, imm, e, gc) ==
    LET f == EnvironmentContent_freeze(E[e])
        E1 == [E EXCEPT ![e] = f.content]
        \* The RefMut of the condition is dropped before the body of the
        \* `if`, and the Ref that clones the heap at the end of its `let`.
        at == PassStart(E1, imm \cup f.froze, {}, e)
    IN  IF f.ret
        THEN [E |-> [E1 EXCEPT ![e].heap =
                        IF gc THEN Heap_gc(@, Environment_roots(E1, e), at)
                              ELSE Heap_gc_weak(@, at)],
              imm |-> imm \cup f.froze,
              ret |-> TRUE]
        ELSE [E |-> E1, imm |-> imm \cup f.froze, ret |-> FALSE]

\* Environment::new: the environments afterwards and the new handle.
Environment_new(E, name) ==
    [E |-> Append(E, NewContent(name, None)), ret |-> Len(E) + 1]

\* Environment::child without the freeze of the receiver.
Environment_child_no_freeze(E, imm, e, name) ==
    [E |-> Append(E, NewContent(name, e)), imm |-> imm, ret |-> Len(E) + 1]

\* Environment::child that also points the receiver back at the child.
Environment_child_back_pointer(E, imm, e, name) ==
    LET f == Environment_freeze(E, imm, e, TRUE)
    IN  [E |-> Append([f.E EXCEPT ![e].parent = Len(E) + 1], NewContent(name, e)),
         imm |-> f.imm,
         ret |-> Len(E) + 1]

\* Environment::child
Environment_child(E, imm, e, name) ==
    LET f == Environment_freeze(E, imm, e, TRUE)
    IN  [E |-> Append(f.E, NewContent(name, e)), imm |-> f.imm,
         ret |-> Len(E) + 1]

\* Environment::with_set_constructor
Environment_with_set_constructor(E, e, ctor) ==
    [E EXCEPT ![e].set_constructor = ctor]

\* Environment::make_set without the delegation to the parent.
Environment_make_set_local(E, e) ==
    IF E[e].set_constructor # None
    THEN OkVal(E[e].set_constructor)
    ELSE TypeNotSupported(<<"s", "e", "t">>)

\* Environment::make_set: the constructor that is invoked, or the error.
RECURSIVE Environment_make_set(_, _)
Environment_make_set(E, e) ==
    IF E[e].set_constructor # None
    THEN OkVal(E[e].set_constructor)
    ELSE IF EnvironmentContent_get_parent(E[e]) # None
         THEN Environment_make_set(E, EnvironmentContent_get_parent(E[e]))
         ELSE TypeNotSupported(<<"s", "e", "t">>)

(***************************************************************************)
(* TypeValues                                                              *)
(***************************************************************************)
\* TypeValues::default
TypeValues_default == [heap |-> Heap_new, type_objs |-> EmptyMap]

\* TypeValues::get_type_value: the value, or None.
TypeValues_get_type_value(tv, obj, id) ==
    IF get_type(obj) \in DOMAIN tv.type_objs
    THEN LET o == tv.type_objs[get_type(obj)]
         IN  IF id \in DOMAIN o THEN o[id] ELSE None
    ELSE None

\* The sequences that enumerate the set S once each, in any order.
Orderings(S) ==
    {s \in [1..Cardinality(S) -> S] : \A i, j \in DOMAIN s : i # j => s[i] # s[j]}

\* TypeValues::list_type_value: the Vecs that it can return, the keys of the
\* inner HashMap in the order of its iteration.
TypeValues_list_type_value(tv, obj) ==
    IF get_type(obj) \in DOMAIN tv.type_objs
    THEN Orderings(DOMAIN tv.type_objs[get_type(obj)])
    ELSE {<< >>}

\* TypeValues::add_type_value that starts a new inner map in both branches.
TypeValues_add_type_value_fresh(tv, obj, attr, value) ==
    [tv EXCEPT !.type_objs = Insert(@, obj, Insert(EmptyMap, attr, value))]

\* TypeValues::add_type_value
TypeValues_add_type_value(tv, obj, attr, value) ==
    IF obj \in DOMAIN tv.type_objs
    THEN [tv EXCEPT !.type_objs[obj] = Insert(@, attr, value)]
    ELSE [tv EXCEPT !.type_objs = Insert(@, obj, Insert(EmptyMap, attr, value))]

(***************************************************************************)
(* The state machine: one action per public operation.                     *)
(***************************************************************************)
Call(op, self, res) == [op |-> op, self |-> self, res |-> res]

\* A panic unwinds the single thread of control: no call follows it.
Panicked == last.res.kind = "BorrowPanic"

\* A call of an operation that can change the program's state is explored
\* while fewer than MaxCalls calls have changed it.
Changing(E, imm) ==
    /\ calls < MaxCalls
    /\ env' = E
    /\ immutable' = imm
    /\ calls' = IF <<E, imm>> # <<env, immutable>> THEN calls + 1 ELSE calls
    /\ UNCHANGED type_values

Reading == UNCHANGED <<env, immutable, calls, type_values, imported_from>>

\* The state after the embedder has created the environments of two
\* top-level modules with Environment::new.
Init ==
    /\ \E name \in EnvNames :
          env = <<NewContent(name, None), NewContent(name, None)>>
    /\ immutable = {}
    /\ calls = 0
    /\ last = Call("new", 2, OkVal(2))
    /\ type_values = TypeValues_default
    /\ imported_from = EmptyMap

\* Environment::new
New(name) ==
    /\ ~Panicked
    /\ LET r == Environment_new(env, name)
       IN  /\ Changing(r.E, immutable)
           /\ last' = Call("new", r.ret, OkVal(r.ret))
           /\ UNCHANGED imported_from

\* Environment::child
Child(e, name) ==
    /\ ~Panicked
    /\ LET r == Environment_child(env, immutable, e, name)
       IN  /\ Changing(r.E, r.imm)
           /\ last' = Call("child", e, OkVal(r.ret))
           /\ UNCHANGED imported_from

\* Environment::freeze
Freeze(e, gc) ==
    /\ ~Panicked
    /\ LET f == Environment_freeze(env, immutable, e, gc)
       IN  /\ Changing(f.E, f.imm)
           /\ last' = Call("freeze", e, OkBool(f.ret))
           /\ UNCHANGED imported_from

\* Environment::set
Set(e, name, value) ==
    /\ ~Panicked
    /\ LET r == Environment_set(env, e, name, value)
       IN  /\ Changing(r.E, immutable)
           /\ last' = Call("set", e, r.res)
           /\ UNCHANGED imported_from

\* Environment::get
Get(e, name) ==
    /\ ~Panicked
    /\ Reading
    /\ last' = Call("get", e, Environment_get(env, {}, e, name))

\* Environment::import_symbol
ImportSymbol(e, src, symbol, new_name) ==
    /\ ~Panicked
    /\ LET r == Environment_import_symbol(env, e, src, symbol, new_name)
       IN  /\ Changing(r.E, immutable)
           /\ last' = Call("import_symbol", e, r.res)
           /\ imported_from' = IF r.res = Ok
                                THEN Insert(imported_from, <<e, new_name>>, src)
                                ELSE imported_from

\* Environment::with_set_constructor
WithSetConstructor(e, ctor) ==
    /\ ~Panicked
    /\ Changing(Environment_with_set_constructor(env, e, ctor), immutable)
    /\ last' = Call("with_set_constructor", e, Ok)
    /\ UNCHANGED imported_from

\* Environment::make_set
MakeSet(e) ==
    /\ ~Panicked
    /\ Reading
    /\ last' = Call("make_set", e, Environment_make_set(env, e))

\* Environment::roots
Roots(e) ==
    /\ ~Panicked
    /\ Reading
    /\ last' = Call("roots", e, OkRoots(Environment_roots(env, e)))

Next ==
    \/ \E name \in EnvNames : New(name)
    \/ \E e \in Handles, name \in EnvNames : Child(e, name)
    \/ \E e \in Handles, gc \in BOOLEAN : Freeze(e, gc)
    \/ \E e \in Handles, name \in Names, value \in Values : Set(e, name, value)
    \/ \E e \in Handles, name \in Names : Get(e, name)
    \/ \E e \in Handles, src \in Handles, symbol \in Names, new_name \in Names :
          ImportSymbol(e, src, symbol, new_name)
    \/ \E e \in Handles, ctor \in Ctors : WithSetConstructor(e, ctor)
    \/ \E e \in Handles : MakeSet(e)
    \/ \E e \in Handles : Roots(e)

Spec == Init /\ [][Next]_vars

(***************************************************************************)
(* The state machine of one TypeValues table, without environments.        *)
(***************************************************************************)
TypeCall(op, obj, id, res) == [op |-> op, obj |-> obj, id |-> id, res |-> res]

\* The state after TypeValues::default.
InitTypeValues ==
    /\ env = << >>
    /\ immutable = {}
    /\ calls = 0
    /\ type_values = TypeValues_default
    /\ imported_from = EmptyMap
    /\ last = TypeCall("default", "", "", None)

\* TypeValues::add_type_value
AddTypeValue(obj, attr, value) ==
    /\ type_values' = TypeValues_add_type_value(type_values, obj, attr, value)
    /\ last' = TypeCall("add_type_value", obj, attr, value)
    /\ UNCHANGED <<env, immutable, calls, imported_from>>

\* TypeValues::get_type_value
GetTypeValue(obj, id) ==
    /\ last' = TypeCall("get_type_value", get_type(obj), id,
                        TypeValues_get_type_value(type_values, obj, id))
    /\ UNCHANGED <<env, immutable, calls, type_values, imported_from>>

\* TypeValues::list_type_value
ListTypeValue(obj) ==
    /\ \E names \in TypeValues_list_type_value(type_values, obj) :
          last' = TypeCall("list_type_value", get_type(obj), "", names)
    /\ UNCHANGED <<env, immutable, calls, type_values, imported_from>>

NextTypeValues ==
    \/ \E obj \in TypeNames, attr \in Attrs, value \in Values :
          AddTypeValue(obj, attr, value)
    \/ \E obj \in Objects, id \in Attrs : GetTypeValue(obj, id)
    \/ \E obj \in Objects : ListTypeValue(obj)

SpecTypeValues == InitTypeValues /\ [][NextTypeValues]_vars

(***************************************************************************)
(* Definitions used to state the claims.                                   *)
(***************************************************************************)
\* The environments of e's parent chain, e first.
RECURSIVE Chain(_)
Chain(e) == IF env[e].parent = None THEN <<e>> ELSE <<e>> \o Chain(env[e].parent)

Binds(e, n) == n \in DOMAIN env[e].variables

\* The lookup of n from e as the scoping rule states it: the binding of the
\* nearest environment of the chain that binds n.
Nearest(e, n) ==
    LET ch == Chain(e)
        at == {i \in 1..Len(ch) : Binds(ch[i], n)}
    IN  IF at = {} THEN VariableNotFound(n)
        ELSE LET i == CHOOSE i \in at : \A j \in at : i <= j
             IN  OkVal(env[ch[i]].variables[n][1])

\* The names of e bound to a value whose GC head is h, by a local definition.
LocalNamesOf(variables, h) ==
    {n \in DOMAIN variables : ~variables[n][2] /\ h \in to_gc_strong(variables[n][1])}

Public == {n \in Names : Len(n) > 0 /\ n[1] # "_"}

X == <<"x">>

\* Every call that can change the state, with the state it leads to: the
\* operation, its receiver, the name it binds, the environments and the
\* immutable values afterwards, and the result.
Outcome(op, self, name, E, imm, res) ==
    [op |-> op, self |-> self, name |-> name, E |-> E, imm |-> imm, res |-> res]

Outcomes ==
    {LET r == Environment_new(env, a[1])
     IN  Outcome("new", r.ret, << >>, r.E, immutable, OkVal(r.ret)) :
        a \in EnvNames \X {0}}
    \cup
    {LET r == Environment_child(env, immutable, a[1], a[2])
     IN  Outcome("child", a[1], << >>, r.E, r.imm, OkVal(r.ret)) :
        a \in Handles \X EnvNames}
    \cup
    {LET r == Environment_freeze(env, immutable, a[1], a[2])
     IN  Outcome("freeze", a[1], << >>, r.E, r.imm, OkBool(r.ret)) :
        a \in Handles \X BOOLEAN}
    \cup
    {LET r == Environment_set(env, a[1], a[2], a[3])
     IN  Outcome("set", a[1], a[2], r.E, immutable, r.res) :
        a \in Handles \X Names \X Values}
    \cup
    {LET r == Environment_import_symbol(env, a[1], a[2], a[3], a[4])
     IN  Outcome("import_symbol", a[1], a[4], r.E, immutable, r.res) :
        a \in Handles \X Handles \X Names \X Names}
    \cup
    {Outcome("with_set_constructor", a[1], << >>,
             Environment_with_set_constructor(env, a[1], a[2]), immutable, Ok) :
        a \in Handles \X Ctors}

\* C1: set on a frozen environment fails with FrozenEnvironment for every
\* name and value, and leaves the environment's variables as they were.
C1_SetOnFrozenFails ==
    \A e \in Handles : env[e].frozen =>
        /\ \A n \in Names, v \in Values :
              LET r == Environment_set(env, e, n, v)
              IN  /\ r.res = TryingToMutateFrozenEnvironment
                  /\ r.E[e].variables = env[e].variables
        /\ (last.op = "set" /\ last.self = e) =>
              last.res = TryingToMutateFrozenEnvironment

\* A set has failed on an environment that holds a binding and was frozen by
\* freeze(false).
C1_Witness ==
    /\ last.op = "set"
    /\ last.res = TryingToMutateFrozenEnvironment
    /\ env[last.self].variables # EmptyMap
    /\ Len(env[last.self].heap) = 1
    /\ env[last.self].heap[1].mode = "gc_weak"

\* C2: no call changes the variables of a frozen environment, and every
\* value bound in it, locally defined or imported, has been made immutable.
C2_FrozenIsStable ==
    LET outs == Outcomes
    IN  \A e \in Handles : env[e].frozen =>
            /\ \A n \in DOMAIN env[e].variables :
                  env[e].variables[n][1] \in immutable
            /\ \A o \in outs :
                  /\ o.E[e].variables = env[e].variables
                  /\ o.E[e].frozen
                  /\ immutable \subseteq o.imm

\* freeze has frozen an environment that holds an imported binding whose
\* source is not frozen.
C2_Witness ==
    /\ last.op = "freeze"
    /\ last.res = OkBool(TRUE)
    /\ env[last.self].frozen
    /\ \E n \in DOMAIN env[last.self].variables : env[last.self].variables[n][2]
    /\ \A s \in DOMAIN env[last.self].deps : ~env[s].frozen

\* C3: after a successful E.set(n, v), E.get(n) returns v, and no call other
\* than a successful set or import_symbol of n on E changes what it returns.
C3_SetThenGet ==
    /\ \A e \in Handles, n \in Names, v \in Values :
          LET r == Environment_set(env, e, n, v)
          IN  r.res = Ok => Environment_get(r.E, {}, e, n) = OkVal(v)
    /\ LET outs == Outcomes
       IN  \A e \in Handles, n \in Names :
              (Binds(e, n) /\ ~env[e].variables[n][2]) =>
                  \A o \in outs :
                      (~(o.self = e /\ o.name = n /\ o.res = Ok /\
                           o.op \in {"set", "import_symbol"})) =>
                          Environment_get(o.E, {}, e, n) =
                              Environment_get(env, {}, e, n)
    /\ (last.op = "set" /\ last.res = Ok) =>
          \E n \in DOMAIN env[last.self].variables :
              ~env[last.self].variables[n][2]

\* get has returned the value set for x in an environment that also binds
\* another name, while another environment binds x to another value.
C3_Witness ==
    /\ last.op = "get"
    /\ Binds(last.self, X)
    /\ ~env[last.self].variables[X][2]
    /\ last.res = OkVal(env[last.self].variables[X][1])
    /\ \E n \in DOMAIN env[last.self].variables :
          env[last.self].variables[n][1] # last.res.val
    /\ \E o \in Handles \ {last.self} :
          Binds(o, X) /\ env[o].variables[X][1] # last.res.val

\* C4: get returns the binding of the nearest environment of the parent
\* chain that binds the name, and VariableNotFound(name) exactly when none does.
C4_GetIsNearest ==
    /\ \A e \in Handles, n \in Names : Environment_get(env, {}, e, n) = Nearest(e, n)
    /\ last.op = "get" => \E n \in Names : last.res = Nearest(last.self, n)

\* get has returned the local binding of a name that the parent binds to
\* another value.
C4_Witness ==
    /\ last.op = "get"
    /\ env[last.self].parent # None
    /\ \E n \in Names :
          /\ Binds(last.self, n)
          /\ Binds(env[last.self].parent, n)
          /\ env[env[last.self].parent].variables[n][1] # env[last.self].variables[n][1]
          /\ last.res = OkVal(env[last.self].variables[n][1])
          /\ \A m \in DOMAIN env[last.self].variables : m = n

\* C5: child freezes its receiver and returns a fresh unfrozen environment
\* whose parent is the receiver; every parent is frozen, and set fails on an
\* environment after child was called on it.
C5_ChildFreezesParent ==
    /\ \A e \in Handles, name \in EnvNames :
          LET r == Environment_child(env, immutable, e, name)
          IN  /\ r.E[e].frozen
              /\ r.ret \notin Handles
              /\ DOMAIN r.E = Handles \cup {r.ret}
              /\ ~r.E[r.ret].frozen
              /\ r.E[r.ret].parent = e
              /\ r.E[r.ret].variables = EmptyMap
              /\ r.E[r.ret].deps = EmptyMap
              /\ \A n \in Names, v \in Values :
                    Environment_set(r.E, e, n, v).res = TryingToMutateFrozenEnvironment
    /\ \A e \in Handles : env[e].parent # None => env[env[e].parent].frozen
    /\ last.op = "child" =>
          /\ env[last.self].frozen
          /\ env[last.res.val].parent = last.self
    /\ (last.op = "set" /\ \E c \in Handles : env[c].parent = last.self) =>
          last.res = TryingToMutateFrozenEnvironment

\* A set has failed on an environment that holds a binding and has a child.
C5_Witness ==
    /\ last.op = "set"
    /\ last.res = TryingToMutateFrozenEnvironment
    /\ env[last.self].variables # EmptyMap
    /\ \E c \in Handles : env[c].parent = last.self /\ ~env[c].frozen

\* C6: no operation enters an EnvironmentState while an exclusive access to
\* it is open: every operation returns success or one of the typed errors.
C6_NoOverlappingAccess ==
    last.res.kind \in {"Ok", "TryingToMutateFrozenEnvironment", "VariableNotFound",
                       "CannotImportPrivateSymbol", "TypeNotSupported"}

\* C7: import_symbol of a public symbol into a frozen environment returns
\* FrozenEnvironment and binds nothing, whether or not the source binds it.
C7_ImportIntoFrozenFails ==
    \A e \in Handles : env[e].frozen =>
        \A src \in Handles, symbol \in Public, new_name \in Names :
            LET r == Environment_import_symbol(env, e, src, symbol, new_name)
            IN  /\ r.res = TryingToMutateFrozenEnvironment
                /\ r.E[e].variables = env[e].variables

\* C8: import_symbol of an empty or underscore-prefixed symbol fails with
\* CannotImportPrivateSymbol(symbol) and changes nothing, whatever the source
\* binds and whether or not the importing environment is frozen.
C8_PrivateImportFails ==
    /\ \A e \in Handles, src \in Handles, new_name \in Names :
          \A symbol \in {<< >>, <<"_", "x">>} :
              LET r == Environment_import_symbol(env, e, src, symbol, new_name)
              IN  /\ r.res = CannotImportPrivateSymbol(symbol)
                  /\ r.E = env
    /\ (last.op = "import_symbol" /\ last.res.kind = "CannotImportPrivateSymbol") =>
          last.res.name \in {<< >>, <<"_", "x">>}

\* An import of "_x" has failed as private where every environment binds
\* "_x" and the importing environment is not frozen.
C8_Witness ==
    /\ last.op = "import_symbol"
    /\ last.res = CannotImportPrivateSymbol(<<"_", "x">>)
    /\ ~env[last.self].frozen
    /\ \A s \in Handles : Binds(s, <<"_", "x">>)

\* C9: a successful import binds new_name to the value the source resolved
\* for symbol at that time, and no later set or import_symbol on another
\* environment changes what the imported name resolves to.
C9_ImportIsSnapshot ==
    /\ \A d \in Handles, src \in Handles, symbol \in Names, new_name \in Names :
          LET r == Environment_import_symbol(env, d, src, symbol, new_name)
          IN  r.res = Ok =>
                Environment_get(r.E, {}, d, new_name) = Nearest(src, symbol)
    /\ LET outs == Outcomes
       IN  \A d \in Handles, n \in Names :
              (Binds(d, n) /\ env[d].variables[n][2]) =>
                  \A o \in outs :
                      (o.self # d /\ o.op \in {"set", "import_symbol"}) =>
                          Environment_get(o.E, {}, d, n) =
                              OkVal(env[d].variables[n][1])

\* The source has rebound x after the other environment imported it: the
\* imported binding keeps the earlier value.
C9_Witness ==
    /\ Len(env) = 2
    /\ last.op = "set"
    /\ last.res = Ok
    /\ Binds(last.self, X)
    /\ \E d \in Handles \ {last.self}, n \in Names :
          /\ Binds(d, n)
          /\ env[d].variables[n][2]
          /\ env[d].variables[n][1] # env[last.self].variables[X][1]
          /\ DOMAIN env[d].deps = {last.self}

C11_FreezeIsIdempotent ==
    /\ \A e \in Handles, gc \in BOOLEAN :
          env[e].frozen =>
              LET f == Environment_freeze(env, immutable, e, gc)
              IN  /\ f.E = env
                  /\ f.imm = immutable
                  /\ ~f.ret
    /\ \A e \in Handles, gc1 \in BOOLEAN, gc2 \in BOOLEAN :
          LET f1 == Environment_freeze(env, immutable, e, gc1)
              f2 == Environment_freeze(f1.E, f1.imm, e, gc2)
          IN  /\ f2.E = f1.E
              /\ f2.imm = f1.imm
              /\ ~f2.ret
    /\ (last.op = "freeze" /\ last.res = OkBool(FALSE)) =>
          /\ env[last.self].frozen
          /\ Len(env[last.self].heap) = 1

\* freeze has reported no state change on a frozen environment that holds a
\* binding and whose heap has seen the one pass of its first freeze.
C11_Witness ==
    /\ last.op = "freeze"
    /\ last.res = OkBool(FALSE)
    /\ env[last.self].frozen
    /\ env[last.self].variables # EmptyMap
    /\ Len(env[last.self].heap) = 1

\* C12: with_set_constructor on a frozen environment fails with
\* FrozenEnvironment and leaves the environment's set constructor unchanged.
C12_WithSetConstructorOnFrozenFails ==
    /\ \A e \in Handles, ctor \in Ctors :
          env[e].frozen =>
              Environment_with_set_constructor(env, e, ctor)[e].set_constructor =
                  env[e].set_constructor
    /\ (last.op = "with_set_constructor" /\ env[last.self].frozen) =>
          last.res = TryingToMutateFrozenEnvironment

\* The set constructor that the scoping rule assigns to e: the one of the
\* nearest environment of the chain that has one installed.
NearestCtor(e) ==
    LET ch == Chain(e)
        at == {i \in 1..Len(ch) : env[ch[i]].set_constructor # None}
    IN  IF at = {} THEN TypeNotSupported(<<"s", "e", "t">>)
        ELSE LET i == CHOOSE i \in at : \A j \in at : i <= j
             IN  OkVal(env[ch[i]].set_constructor)

\* C13: make_set invokes the set constructor of the nearest environment of
\* the parent chain that has one, an environment's constructor being the one
\* most recently installed on it; it fails with UnsupportedOperation("set")
\* exactly when no environment of the chain has one.
C13_MakeSetIsNearest ==
    /\ \A e \in Handles :
          /\ Environment_make_set(env, e) = NearestCtor(e)
          /\ Environment_make_set(env, e).kind = "TypeNotSupported" <=>
                \A i \in 1..Len(Chain(e)) : env[Chain(e)[i]].set_constructor = None
    /\ \A e \in Handles, c1 \in Ctors, c2 \in Ctors :
          LET E1 == Environment_with_set_constructor(env, e, c1)
              E2 == Environment_with_set_constructor(E1, e, c2)
          IN  /\ Environment_make_set(E1, e) = OkVal(c1)
              /\ Environment_make_set(E2, e) = OkVal(c2)
              /\ \A o \in Handles \ {e} :
                    E2[o].set_constructor = env[o].set_constructor
    /\ last.op = "make_set" => last.res = NearestCtor(last.self)

\* make_set has invoked the constructor of the parent from a child without
\* one, while another environment of the program has another constructor.
C13_Witness ==
    /\ last.op = "make_set"
    /\ env[last.self].set_constructor = None
    /\ env[last.self].parent # None
    /\ env[env[last.self].parent].set_constructor # None
    /\ last.res = OkVal(env[env[last.self].parent].set_constructor)
    /\ \E o \in Handles :
          env[o].set_constructor \notin {None, last.res.val}

\* C14: deps only grows and is deduplicated by identity: no call removes or
\* replaces an entry of an environment's deps, any number of imports from one
\* source record exactly one entry for it, and two distinct sources with
\* equal contents get two entries.
C14_DepsGrowByIdentity ==
    /\ \A e \in Handles : \A k \in DOMAIN env[e].deps : env[e].deps[k] = k
    /\ LET outs == Outcomes
       IN  \A o \in outs : \A e \in Handles : \A k \in DOMAIN env[e].deps :
              /\ k \in DOMAIN o.E[e].deps
              /\ o.E[e].deps[k] = env[e].deps[k]
    /\ \A e \in Handles, src \in Handles, s1 \in Public, n1 \in Names :
          LET r1 == Environment_import_symbol(env, e, src, s1, n1)
          IN  /\ DOMAIN r1.E[e].deps = DOMAIN env[e].deps \cup {src}
              /\ r1.res.kind # "BorrowPanic" =>
                    \A s2 \in Public, n2 \in Names :
                        LET r2 == Environment_import_symbol(r1.E, e, src, s2, n2)
                        IN  r2.E[e].deps = r1.E[e].deps
    /\ \A e \in Handles, a \in Handles, b \in Handles :
          (a # b /\ env[a] = env[b] /\ e \notin {a, b}) =>
              LET r1 == Environment_import_symbol(env, e, a, X, X)
                  r2 == Environment_import_symbol(r1.E, e, b, X, X)
              IN  /\ {a, b} \subseteq DOMAIN r2.E[e].deps
                  /\ Cardinality(DOMAIN r2.E[e].deps) =
                        Cardinality(DOMAIN env[e].deps \ {a, b}) + 2

\* An environment has imported from two distinct environments with equal
\* contents and holds one entry for each.
C14_Witness ==
    /\ last.op = "import_symbol"
    /\ \E a \in Handles, b \in Handles :
          /\ a # b
          /\ env[a] = env[b]
          /\ DOMAIN env[last.self].deps = {a, b}

\* The table holds an entry for attribute a of type t.
Registered(tv, t, a) ==
    t \in DOMAIN tv.type_objs /\ a \in DOMAIN tv.type_objs[t]

RegisteredAttrs(tv, t) == {a \in Attrs : Registered(tv, t, a)}

\* C15: TypeValues is an upsert table: after add_type_value(t, a, v),
\* get_type_value on every instance of type t with attribute a returns v and
\* every other (type, attribute) entry is as before; get_type_value yields
\* not-found exactly when the type or the attribute is absent;
\* list_type_value returns exactly the attribute names registered for the
\* instance's type, each once, and none if there are none.
C15_TypeValuesUpsert ==
    /\ \A t \in TypeNames, a \in Attrs, v \in Values :
          LET tv2 == TypeValues_add_type_value(type_values, t, a, v)
          IN  /\ \A obj \in Objects :
                    get_type(obj) = t => TypeValues_get_type_value(tv2, obj, a) = v
              /\ Registered(tv2, t, a)
              /\ tv2.type_objs[t][a] = v
              /\ \A t2 \in TypeNames, a2 \in Attrs :
                    <<t2, a2>> # <<t, a>> =>
                        /\ Registered(tv2, t2, a2) <=> Registered(type_values, t2, a2)
                        /\ Registered(type_values, t2, a2) =>
                              tv2.type_objs[t2][a2] = type_values.type_objs[t2][a2]
              /\ DOMAIN tv2.type_objs = DOMAIN type_values.type_objs \cup {t}
              /\ tv2.heap = type_values.heap
    /\ \A obj \in Objects, id \in Attrs :
          LET r == TypeValues_get_type_value(type_values, obj, id)
          IN  /\ r = None <=> ~Registered(type_values, get_type(obj), id)
              /\ r # None => r = type_values.type_objs[get_type(obj)][id]
    /\ \A obj \in Objects :
          /\ TypeValues_list_type_value(type_values, obj) # {}
          /\ \A names \in TypeValues_list_type_value(type_values, obj) :
                /\ {names[i] : i \in DOMAIN names} =
                      RegisteredAttrs(type_values, get_type(obj))
                /\ Len(names) = Cardinality(RegisteredAttrs(type_values, get_type(obj)))
    /\ last.op = "add_type_value" =>
          /\ Registered(type_values, last.obj, last.id)
          /\ type_values.type_objs[last.obj][last.id] = last.res
    /\ last.op = "get_type_value" =>
          last.res = IF Registered(type_values, last.obj, last.id)
                     THEN type_values.type_objs[last.obj][last.id]
                     ELSE None
    /\ last.op = "list_type_value" =>
          /\ {last.res[i] : i \in DOMAIN last.res} = RegisteredAttrs(type_values, last.obj)
          /\ Len(last.res) = Cardinality(RegisteredAttrs(type_values, last.obj))

\* get_type_value has returned the value of one attribute of a type that
\* has two attributes with different values, while another type registers
\* the same attribute with the other value and a third type has no entry.
C15_Witness ==
    /\ last.op = "get_type_value"
    /\ last.res # None
    /\ RegisteredAttrs(type_values, last.obj) = Attrs
    /\ \E a \in Attrs :
          type_values.type_objs[last.obj][a] # last.res
    /\ \E t \in DOMAIN type_values.type_objs :
          /\ t # last.obj
          /\ Registered(type_values, t, last.id)
          /\ type_values.type_objs[t][last.id] # last.res
    /\ DOMAIN type_values.type_objs # TypeNames

\* C16: a frozen environment is read-only: no call of any operation changes
\* its name, parent, deps, variables or set constructor.
C16_FrozenIsReadOnly ==
    LET outs == Outcomes
    IN  \A e \in Handles : env[e].frozen =>
            \A o \in outs :
                /\ o.E[e].name_ = env[e].name_
                /\ o.E[e].parent = env[e].parent
                /\ o.E[e].deps = env[e].deps
                /\ o.E[e].variables = env[e].variables
                /\ o.E[e].set_constructor = env[e].set_constructor

\* C17: each environment's heap receives exactly one freeze-triggered GC
\* pass, at the call that takes its frozen flag from false to true and at no
\* later freeze or child call; the pass is a full trace from the roots of
\* that environment when the call is freeze(true) or child, and a weak pass
\* when it is freeze(false); when the pass starts the flag is set, every
\* bound value is immutable and no exclusive access to the state is open.
C17_OneGcPassPerFreeze ==
    /\ \A e \in Handles :
          /\ Len(env[e].heap) = IF env[e].frozen THEN 1 ELSE 0
          /\ \A i \in DOMAIN env[e].heap :
                /\ env[e].heap[i].at.frozen
                /\ env[e].heap[i].at.immutable
                /\ ~env[e].heap[i].at.borrowed
                /\ env[e].heap[i].mode \in {"gc", "gc_weak"}
                /\ env[e].heap[i].mode = "gc" =>
                      env[e].heap[i].roots = Environment_roots(env, e)
    /\ \A e \in Handles, gc \in BOOLEAN :
          LET f == Environment_freeze(env, immutable, e, gc)
          IN  /\ \A o \in Handles \ {e} : f.E[o].heap = env[o].heap
              /\ env[e].frozen => f.E[e].heap = env[e].heap
              /\ ~env[e].frozen =>
                    /\ Len(f.E[e].heap) = 1
                    /\ f.E[e].heap[1].mode = IF gc THEN "gc" ELSE "gc_weak"
                    /\ gc => f.E[e].heap[1].roots = Environment_roots(env, e)
    /\ \A e \in Handles, name \in EnvNames :
          LET r == Environment_child(env, immutable, e, name)
          IN  /\ \A o \in Handles \ {e} : r.E[o].heap = env[o].heap
              /\ r.E[r.ret].heap = Heap_new
              /\ env[e].frozen => r.E[e].heap = env[e].heap
              /\ ~env[e].frozen =>
                    /\ Len(r.E[e].heap) = 1
                    /\ r.E[e].heap[1].mode = "gc"
                    /\ r.E[e].heap[1].roots = Environment_roots(env, e)
    /\ LET outs == Outcomes
       IN  \A o \in outs :
              o.op \notin {"freeze", "child"} =>
                  \A e \in Handles :
                      /\ o.E[e].heap = env[e].heap
                      /\ o.E[e].frozen = env[e].frozen
    /\ (last.op = "freeze" /\ last.res = OkBool(TRUE)) =>
          Len(env[last.self].heap) = 1
    /\ last.op = "child" =>
          /\ Len(env[last.self].heap) = 1
          /\ env[last.res.val].heap = Heap_new

\* child has been called on an environment that holds a binding with a GC
\* head and was frozen before by freeze(false): its heap has seen the weak
\* pass of that freeze and no pass of the child call.
C17_Witness ==
    /\ last.op = "child"
    /\ Len(env[last.self].heap) = 1
    /\ env[last.self].heap[1].mode = "gc_weak"
    /\ Environment_roots(env, last.self) # EmptyBag
    /\ env[last.res.val].parent = last.self

\* C18: import_symbol records the dependency before the lookup and the
\* binding: after a call with a non-private symbol the source is in the deps
\* of the importing environment, when the call succeeds and when it fails
\* with VariableNotFound or FrozenEnvironment; and every binding flagged
\* imported has the environment it was imported from in the deps.
C18_DepRecordedBeforeLookup ==
    /\ \A e \in Handles, src \in Handles, symbol \in Public, new_name \in Names :
          LET r == Environment_import_symbol(env, e, src, symbol, new_name)
          IN  /\ src \in DOMAIN r.E[e].deps
              /\ r.E[e].deps[src] = src
              /\ r.res = Ok => r.E[e].variables[new_name][2]
    /\ \A e \in Handles : \A n \in DOMAIN env[e].variables :
          env[e].variables[n][2] =>
              /\ <<e, n>> \in DOMAIN imported_from
              /\ imported_from[<<e, n>>] \in DOMAIN env[e].deps
    /\ (/\ last.op = "import_symbol"
        /\ last.res.kind \in {"Ok", "VariableNotFound",
                              "TryingToMutateFrozenEnvironment"}) =>
          DOMAIN env[last.self].deps # {}

\* An import has failed with FrozenEnvironment on a frozen environment
\* after the source resolved the symbol: the source is the one dependency of
\* the importing environment, which binds nothing.
C18_Witness ==
    /\ last.op = "import_symbol"
    /\ last.res = TryingToMutateFrozenEnvironment
    /\ env[last.self].variables = EmptyMap
    /\ \E s \in Handles \ {last.self} :
          /\ DOMAIN env[last.self].deps = {s}
          /\ Binds(s, X)

\* C19: set has no parent fallback: E.set(name, value), successful or not,
\* changes at most the binding of name in E; every other binding of E, its
\* frozen flag, deps and set constructor, and the whole state of every other
\* environment, parents and importers included, are as before.
C19_SetIsLocal ==
    /\ \A e \in Handles, n \in Names, v \in Values :
          LET r == Environment_set(env, e, n, v)
          IN  /\ DOMAIN r.E = Handles
              /\ \A o \in Handles \ {e} : r.E[o] = env[o]
              /\ r.E[e] = [env[e] EXCEPT !.variables = r.E[e].variables]
              /\ DOMAIN r.E[e].variables \ {n} = DOMAIN env[e].variables \ {n}
              /\ \A m \in DOMAIN env[e].variables \ {n} :
                    r.E[e].variables[m] = env[e].variables[m]
              /\ r.res # Ok => r.E = env
              /\ r.res = Ok <=> ~env[e].frozen
    /\ (last.op = "set" /\ last.res = Ok) => ~env[last.self].frozen

\* A set has succeeded on a child for a name that its parent binds: the
\* parent keeps its binding, to another value.
C19_Witness ==
    /\ last.op = "set"
    /\ last.res = Ok
    /\ env[last.self].parent # None
    /\ \E n \in Names :
          /\ Binds(last.self, n)
          /\ ~env[last.self].variables[n][2]
          /\ Binds(env[last.self].parent, n)
          /\ env[env[last.self].parent].variables[n][1] #
                env[last.self].variables[n][1]

\* The environment reached from e along k parent edges, None past a root.
RECURSIVE Up(_, _)
Up(e, k) ==
    IF k = 0 THEN e
    ELSE IF env[e].parent = None THEN None
         ELSE Up(env[e].parent, k - 1)

\* C20: the parent edges form a forest: an environment's parent is fixed at
\* its creation and no call changes it, no environment is its own ancestor,
\* and the parent edges from any environment reach a root within as many
\* steps as there are environments, so that get and make_set return; this
\* holds also when the deps edges form a cycle.
C20_ParentsFormForest ==
    /\ \A e \in Handles :
          /\ env[e].parent # None => env[e].parent \in Handles
          /\ \A k \in 1..Len(env) : Up(e, k) # e
          /\ \E k \in 0..(Len(env) - 1) :
                Up(e, k) # None /\ env[Up(e, k)].parent = None
    /\ LET outs == Outcomes
       IN  \A o \in outs :
              /\ \A e \in Handles : o.E[e].parent = env[e].parent
              /\ \A c \in DOMAIN o.E \ Handles :
                    /\ o.op \in {"new", "child"}
                    /\ o.E[c].parent = IF o.op = "child" THEN o.self ELSE None
    /\ \A e \in Handles :
          /\ Environment_make_set(env, e).kind \in {"Ok", "TypeNotSupported"}
          /\ \A n \in Names :
                Environment_get(env, {}, e, n).kind \in {"Ok", "VariableNotFound"}

\* A lookup from a child has returned while its parent and another
\* environment hold each other in their deps.
C20_Witness ==
    /\ last.op \in {"get", "make_set"}
    /\ last.res.kind \in {"Ok", "VariableNotFound", "TypeNotSupported"}
    /\ env[last.self].parent # None
    /\ \E b \in Handles \ {env[last.self].parent} :
          /\ b \in DOMAIN env[env[last.self].parent].deps
          /\ env[last.self].parent \in DOMAIN env[b].deps

====
